---- MODULE Spec2Model ----
(***************************************************************************)
(* Model of the ATECC key slot of the cryptoauthlib provider               *)
(* (src/providers/cryptoauthlib/key_slot.rs): the software status of a     *)
(* hardware slot, its reference counter, and the three predicates that     *)
(* decide whether PSA key attributes fit the slot's hardware configuration.*)
(***************************************************************************)
EXTENDS Integers, FiniteSets, Sequences, TLC

VARIABLES slot, created, key_attr, last, lock, callers

vars == <<slot, created, key_attr, last, lock, callers>>

(***************************************************************************)
(* Bounds of the model.                                                    *)
(***************************************************************************)
\* largest reference count a slot is constructed with
MaxRefInit == 2
\* number of allocator callers that contend for one slot
NumCallers == 2

(***************************************************************************)
(* Data: slot status, hardware configuration.                              *)
(***************************************************************************)
KeySlotStatus == {"Free", "Busy", "Locked"}

\* rust_cryptoauthlib::KeyType
KeyType == {"P256EccKey", "Aes", "ShaOrText", "Rfu"}

\* The fields of rust_cryptoauthlib::SlotConfig that key_slot.rs reads.
SlotConfig ==
  [key_type : KeyType,
   no_mac : BOOLEAN,
   is_secret : BOOLEAN,
   pub_info : BOOLEAN,
   ecc_key_attr : [is_private : BOOLEAN]]

AteccKeySlot(rc, st, cfg) == [ref_count |-> rc, status |-> st, config |-> cfg]

\* AteccKeySlot::default() for a given hardware configuration
DefaultSlot(cfg) == AteccKeySlot(0, "Free", cfg)

(***************************************************************************)
(* Data: PSA key attributes.                                               *)
(***************************************************************************)
EccFamily == {"SecpR1", "SecpK1", "Montgomery"}
DhFamily == {"Rfc7919"}

PlainTypeTags ==
  {"RawData", "Hmac", "Derive", "Aes", "Des", "Camellia", "Arc4", "Chacha20",
   "RsaPublicKey", "RsaKeyPair"}

\* psa_key_attributes::Type; family is "None" for the variants without one
Type ==
  [tag : PlainTypeTags, family : {"None"}]
    \cup [tag : {"EccKeyPair", "EccPublicKey"}, family : EccFamily]
    \cup [tag : {"DhKeyPair", "DhPublicKey"}, family : DhFamily]

PlainType(t) == [tag |-> t, family |-> "None"]
EccKeyPair(f) == [tag |-> "EccKeyPair", family |-> f]
EccPublicKey(f) == [tag |-> "EccPublicKey", family |-> f]

\* psa_key_attributes::UsageFlags
UsageFlags ==
  [sign_hash : BOOLEAN, verify_hash : BOOLEAN, sign_message : BOOLEAN,
   verify_message : BOOLEAN, export : BOOLEAN, encrypt : BOOLEAN,
   decrypt : BOOLEAN, cache : BOOLEAN, copy : BOOLEAN, derive : BOOLEAN]

NoFlags ==
  [sign_hash |-> FALSE, verify_hash |-> FALSE, sign_message |-> FALSE,
   verify_message |-> FALSE, export |-> FALSE, encrypt |-> FALSE,
   decrypt |-> FALSE, cache |-> FALSE, copy |-> FALSE, derive |-> FALSE]

Hash == {"Sha256", "Sha512"}
TagLengths == {8, 16}

\* psa_algorithm::Algorithm as a record of uniform shape:
\*   class : the variant of Algorithm
\*   form  : the wrapping variant (FullLength/Truncated, default/shortened
\*           tag, Raw/WithKeyDerivation), "-" when there is none
\*   alg   : the inner algorithm, "-" when there is none
\*   hash  : the hash the algorithm is parametrised with ("Any" is
\*           SignHash::Any), "-" when there is none
\*   len   : mac_length / tag_length of the truncated forms, 0 otherwise
Alg(c, f, a, h, l) == [class |-> c, form |-> f, alg |-> a, hash |-> h, len |-> l]

Algorithm ==
  {Alg("None", "-", "-", "-", 0)}
    \cup {Alg("Hash", "-", "-", h, 0) : h \in Hash}
    \cup {Alg("Mac", "FullLength", "Hmac", h, 0) : h \in Hash}
    \cup {Alg("Mac", "Truncated", "Hmac", h, l) : h \in Hash, l \in TagLengths}
    \cup {Alg("Mac", "FullLength", a, "-", 0) : a \in {"CbcMac", "Cmac"}}
    \cup {Alg("Mac", "Truncated", a, "-", l) : a \in {"CbcMac", "Cmac"}, l \in TagLengths}
    \cup {Alg("Cipher", "-", a, "-", 0) :
            a \in {"StreamCipher", "Ctr", "Cfb", "Ofb", "Xts", "EcbNoPadding",
                   "CbcNoPadding", "CbcPkcs7"}}
    \cup {Alg("Aead", "AeadWithDefaultLengthTag", a, "-", 0) :
            a \in {"Ccm", "Gcm", "Chacha20Poly1305"}}
    \cup {Alg("Aead", "AeadWithShortenedTag", a, "-", l) :
            a \in {"Ccm", "Gcm", "Chacha20Poly1305"}, l \in TagLengths}
    \cup {Alg("AsymmetricSignature", "-", a, h, 0) :
            a \in {"RsaPkcs1v15Sign", "RsaPss", "Ecdsa", "DeterministicEcdsa"},
            h \in Hash \cup {"Any"}}
    \cup {Alg("AsymmetricSignature", "-", a, "-", 0) :
            a \in {"RsaPkcs1v15SignRaw", "EcdsaAny"}}
    \cup {Alg("AsymmetricEncryption", "-", "RsaPkcs1v15Crypt", "-", 0)}
    \cup {Alg("AsymmetricEncryption", "-", "RsaOaep", h, 0) : h \in Hash}
    \cup {Alg("KeyAgreement", "Raw", a, "-", 0) : a \in {"Ffdh", "Ecdh"}}
    \cup {Alg("KeyAgreement", "WithKeyDerivation", a, h, 0) :
            a \in {"Ffdh", "Ecdh"}, h \in Hash}
    \cup {Alg("KeyDerivation", "-", "Hkdf", h, 0) : h \in Hash}

\* psa_key_attributes::Attributes (lifetime is never read by key_slot.rs)
Attributes(kt, b, uf, pa) ==
  [key_type |-> kt, bits |-> b,
   policy |-> [usage_flags |-> uf, permitted_algorithms |-> pa]]

(***************************************************************************)
(* Results.                                                                *)
(***************************************************************************)
Ok == "Ok"
PsaErrorNotSupported == "PsaErrorNotSupported"
PsaErrorNotPermitted == "PsaErrorNotPermitted"
\* Err(()) of reference_check_and_set
Err == "Err"

BoolStr(b) == IF b THEN "true" ELSE "false"

(***************************************************************************)
(* The three compatibility predicates.                                     *)
(***************************************************************************)
\* is_key_type_ok that forgets the bit-length condition of the EC arm
is_key_type_ok_no_bits(self, attr) ==
  CASE attr.key_type.tag = "RawData" -> self.config.key_type = "ShaOrText"
    [] attr.key_type.tag = "Hmac" -> ~self.config.no_mac
    [] attr.key_type.tag = "Aes" -> self.config.key_type = "Aes"
    [] attr.key_type.tag \in {"EccKeyPair", "EccPublicKey"}
         /\ attr.key_type.family = "SecpR1" ->
           self.config.key_type = "P256EccKey"
    [] OTHER -> FALSE

is_key_type_ok(self, attr) ==
  CASE attr.key_type.tag = "RawData" -> self.config.key_type = "ShaOrText"
    [] attr.key_type.tag = "Hmac" -> ~self.config.no_mac
    [] attr.key_type.tag = "Aes" -> self.config.key_type = "Aes"
    [] attr.key_type.tag \in {"EccKeyPair", "EccPublicKey"}
         /\ attr.key_type.family = "SecpR1" ->
           attr.bits = 256 /\ self.config.key_type = "P256EccKey"
    [] attr.key_type.tag \in {"Derive", "DhKeyPair", "DhPublicKey"} -> FALSE
    [] OTHER -> FALSE

\* is_usage_flags_ok whose sign check forgets ecc_key_attr.is_private
is_usage_flags_ok_no_private(self, attr) ==
  LET uf == attr.policy.usage_flags
      result1 ==
        IF uf.export \/ uf.copy
        THEN CASE self.config.key_type = "Aes" -> TRUE
               [] self.config.key_type = "P256EccKey" ->
                    self.config.pub_info
                      /\ attr.key_type.tag \in {"EccPublicKey", "DhPublicKey"}
               [] OTHER -> TRUE
        ELSE TRUE
  IN  IF ~result1 THEN FALSE
      ELSE IF uf.sign_hash \/ uf.sign_message
           THEN result1 /\ self.config.key_type = "P256EccKey"
           ELSE result1

\* is_usage_flags_ok without the block that checks the sign flags
is_usage_flags_ok_no_sign(self, attr) ==
  LET uf == attr.policy.usage_flags
  IN  IF uf.export \/ uf.copy
      THEN CASE self.config.key_type = "Aes" -> TRUE
             [] self.config.key_type = "P256EccKey" ->
                  self.config.pub_info
                    /\ attr.key_type.tag \in {"EccPublicKey", "DhPublicKey"}
             [] OTHER -> TRUE
      ELSE TRUE

is_usage_flags_ok(self, attr) ==
  LET uf == attr.policy.usage_flags
      \* result after the export / copy block
      result1 ==
        IF uf.export \/ uf.copy
        THEN TRUE /\ CASE self.config.key_type = "Aes" -> TRUE
                       [] self.config.key_type = "P256EccKey" ->
                            self.config.pub_info
                              /\ attr.key_type.tag \in {"EccPublicKey", "DhPublicKey"}
                       [] OTHER -> TRUE
        ELSE TRUE
  IN  IF ~result1 THEN FALSE
      ELSE IF uf.sign_hash \/ uf.sign_message
           THEN (result1 /\ self.config.key_type = "P256EccKey")
                  /\ self.config.ecc_key_attr.is_private
           ELSE result1

\* is_permitted_algorithms_ok whose HMAC arm forgets the no_mac flag
is_permitted_algorithms_ok_hmac_no_mac(self, attr) ==
  LET a == attr.policy.permitted_algorithms
  IN  CASE a.class = "Hash" /\ a.hash = "Sha256" -> TRUE
        [] a.class = "Mac" /\ a.alg = "Hmac" /\ a.hash = "Sha256" ->
             self.config.key_type # "P256EccKey"
               /\ ~self.config.ecc_key_attr.is_private
        [] a.class = "Mac" /\ a.alg \in {"CbcMac", "Cmac"} ->
             ~self.config.no_mac /\ self.config.key_type = "Aes"
        [] a.class = "Cipher" /\ a.alg \in {"CbcPkcs7", "Ctr", "Cfb", "Ofb"} ->
             self.config.key_type = "Aes"
        [] a.class = "Aead" /\ a.alg \in {"Ccm", "Gcm"} ->
             self.config.key_type = "Aes"
        [] a.class = "AsymmetricSignature" /\ a.alg = "Ecdsa" /\ a.hash = "Sha256" ->
             self.config.is_secret
               /\ self.config.key_type = "P256EccKey"
               /\ self.config.ecc_key_attr.is_private
        [] a.class = "KeyAgreement" /\ a.alg = "Ecdh" ->
             self.config.key_type = "P256EccKey"
        [] OTHER -> FALSE

is_permitted_algorithms_ok(self, attr) ==
  LET a == attr.policy.permitted_algorithms
  IN  CASE \* Hash algorithm
           a.class = "Hash" /\ a.hash = "Sha256" -> TRUE
           \* Mac::Hmac algorithm, truncated or full length
        [] a.class = "Mac" /\ a.form \in {"Truncated", "FullLength"}
             /\ a.alg = "Hmac" /\ a.hash = "Sha256" ->
             ~self.config.no_mac
               /\ self.config.key_type # "P256EccKey"
               /\ ~self.config.ecc_key_attr.is_private
           \* Mac::CbcMac and Mac::Cmac algorithms
        [] a.class = "Mac" /\ a.form \in {"Truncated", "FullLength"}
             /\ a.alg \in {"CbcMac", "Cmac"} ->
             ~self.config.no_mac /\ self.config.key_type = "Aes"
           \* Cipher
        [] a.class = "Cipher" /\ a.alg \in {"CbcPkcs7", "Ctr", "Cfb", "Ofb"} ->
             self.config.key_type = "Aes"
           \* Aead
        [] a.class = "Aead"
             /\ a.form \in {"AeadWithDefaultLengthTag", "AeadWithShortenedTag"}
             /\ a.alg \in {"Ccm", "Gcm"} ->
             self.config.key_type = "Aes"
           \* AsymmetricSignature
        [] a.class = "AsymmetricSignature" /\ a.alg = "Ecdsa" /\ a.hash = "Sha256" ->
             self.config.is_secret
               /\ self.config.key_type = "P256EccKey"
               /\ self.config.ecc_key_attr.is_private
        [] a.class = "AsymmetricSignature" /\ a.alg = "DeterministicEcdsa"
             /\ a.hash = "Sha256" -> FALSE
           \* AsymmetricEncryption
        [] a.class = "AsymmetricEncryption" -> FALSE
           \* KeyAgreement
        [] a.class = "KeyAgreement" /\ a.form \in {"Raw", "WithKeyDerivation"}
             /\ a.alg = "Ecdh" ->
             self.config.key_type = "P256EccKey"
           \* Nothing else is known to be supported by Atecc
        [] OTHER -> FALSE

\* key_attr_vs_config that leaves out check (2), the usage flags
key_attr_vs_config_no_usage(self, attr) ==
  IF ~is_key_type_ok(self, attr) THEN PsaErrorNotSupported
  ELSE IF ~is_permitted_algorithms_ok(self, attr) THEN PsaErrorNotSupported
  ELSE Ok

key_attr_vs_config(self, attr) ==
  \* (1) Check attributes.key_type
  IF ~is_key_type_ok(self, attr) THEN PsaErrorNotSupported
  \* (2) Check attributes.policy.usage_flags
  ELSE IF ~is_usage_flags_ok(self, attr) THEN PsaErrorNotSupported
  \* (3) Check attributes.policy.permitted_algorithms
  ELSE IF ~is_permitted_algorithms_ok(self, attr) THEN PsaErrorNotSupported
  ELSE Ok

(***************************************************************************)
(* The lifecycle operations.  An operation on &mut self yields the slot    *)
(* after the call and the value returned.                                  *)
(***************************************************************************)
\* set_slot_status without the early return for a Locked slot
set_slot_status_no_locked_check(self, status) ==
  IF status = "Locked"
  THEN [slot |-> self, res |-> PsaErrorNotPermitted]
  ELSE [slot |-> [self EXCEPT !.status = status], res |-> Ok]

\* set_slot_status that accepts Locked as a requested status
set_slot_status_accepts_locked(self, status) ==
  IF self.status = "Locked"
  THEN [slot |-> self, res |-> PsaErrorNotPermitted]
  ELSE [slot |-> [self EXCEPT !.status = status], res |-> Ok]

\* set_slot_status that drops the reference when the slot is released
set_slot_status_resets_ref(self, status) ==
  IF self.status = "Locked"
  THEN [slot |-> self, res |-> PsaErrorNotPermitted]
  ELSE IF status = "Locked"
       THEN [slot |-> self, res |-> PsaErrorNotPermitted]
       ELSE [slot |-> [self EXCEPT !.status = status,
                                   !.ref_count = IF status = "Free" THEN 0 ELSE @],
             res |-> Ok]

set_slot_status(self, status) ==
  IF self.status = "Locked"
  THEN [slot |-> self, res |-> PsaErrorNotPermitted]
  ELSE IF status = "Locked"
       THEN [slot |-> self, res |-> PsaErrorNotPermitted]
       ELSE [slot |-> [self EXCEPT !.status = status], res |-> Ok]

\* reference_check_and_set that counts every caller
reference_check_and_set_increment(self) ==
  [slot |-> [self EXCEPT !.ref_count = (@ + 1) % 256], res |-> Ok]

reference_check_and_set(self) ==
  IF 0 < self.ref_count
  THEN [slot |-> self, res |-> Err]
  ELSE [slot |-> [self EXCEPT !.ref_count = 1], res |-> Ok]

\* is_free that takes every slot that is not Locked for free
is_free_not_locked(self) == self.status # "Locked"

is_free(self) == self.status = "Free"

(***************************************************************************)
(* Inputs.                                                                 *)
(***************************************************************************)
AllFlags == [f \in DOMAIN NoFlags |-> TRUE]

HmacSha256Full == Alg("Mac", "FullLength", "Hmac", "Sha256", 0)
EcdsaSha256 == Alg("AsymmetricSignature", "-", "Ecdsa", "Sha256", 0)
DeterministicEcdsaSha256 == Alg("AsymmetricSignature", "-", "DeterministicEcdsa", "Sha256", 0)
CipherCtr == Alg("Cipher", "-", "Ctr", "-", 0)

\* the keys the allocator is asked for in the lifecycle specifications
HmacKey == Attributes(PlainType("Hmac"), 256, NoFlags, HmacSha256Full)
AesKey == Attributes(PlainType("Aes"), 128, [NoFlags EXCEPT !.encrypt = TRUE], CipherCtr)
EccSignKey ==
  Attributes(EccKeyPair("SecpR1"), 256, [NoFlags EXCEPT !.sign_hash = TRUE], EcdsaSha256)

ScenarioKeys == {HmacKey, AesKey, EccSignKey}

Bits == {128, 256, 384}

\* inputs of is_key_type_ok
TypeKeys ==
  {Attributes(kt, b, uf, pa) :
     kt \in Type, b \in Bits, uf \in {NoFlags, AllFlags},
     pa \in {EcdsaSha256, CipherCtr}}

UsageTypes ==
  {PlainType("RawData"), PlainType("Hmac"), PlainType("Aes"),
   EccKeyPair("SecpR1"), EccPublicKey("SecpR1"), EccPublicKey("SecpK1"),
   [tag |-> "DhKeyPair", family |-> "Rfc7919"],
   [tag |-> "DhPublicKey", family |-> "Rfc7919"]}

\* inputs of is_usage_flags_ok
UsageKeys ==
  {Attributes(kt, 256, uf, EcdsaSha256) : kt \in UsageTypes, uf \in UsageFlags}

\* inputs of is_permitted_algorithms_ok
AlgKeys ==
  {Attributes(kt, 256, uf, pa) :
     kt \in {PlainType("Aes"), EccKeyPair("SecpR1")},
     uf \in {NoFlags, AllFlags}, pa \in Algorithm}

CompatTypes ==
  {PlainType("RawData"), PlainType("Hmac"), PlainType("Aes"), PlainType("Derive"),
   EccKeyPair("SecpR1"), EccPublicKey("SecpR1"), EccKeyPair("SecpK1")}

CompatFlags ==
  {[NoFlags EXCEPT !.export = e, !.sign_hash = sg, !.derive = d] :
     e \in BOOLEAN, sg \in BOOLEAN, d \in BOOLEAN}

CompatAlgs ==
  {Alg("Hash", "-", "-", "Sha256", 0), HmacSha256Full, CipherCtr,
   Alg("Aead", "AeadWithDefaultLengthTag", "Gcm", "-", 0),
   EcdsaSha256, DeterministicEcdsaSha256,
   Alg("KeyAgreement", "Raw", "Ecdh", "-", 0),
   Alg("KeyDerivation", "-", "Hkdf", "Sha256", 0)}

\* inputs of key_attr_vs_config
CompatKeys ==
  {Attributes(kt, b, uf, pa) :
     kt \in CompatTypes, b \in {256, 384}, uf \in CompatFlags, pa \in CompatAlgs}

\* HMAC keys permitted HMAC-SHA-256, with every combination of usage flags
HmacKeys ==
  {Attributes(PlainType("Hmac"), 256, uf, pa) :
     uf \in UsageFlags,
     pa \in {HmacSha256Full, Alg("Mac", "Truncated", "Hmac", "Sha256", 16)}}

(***************************************************************************)
(* State.                                                                  *)
(*   slot     : the AteccKeySlot                                           *)
(*   created  : the slot as it was constructed                             *)
(*   key_attr : the key attributes of the last compatibility call          *)
(*   last     : the last call: operation, requested status, value returned *)
(*   lock     : holder of the allocator's lock on the slot table, 0 = none *)
(*   callers  : the allocator callers contending for the slot              *)
(***************************************************************************)
Callers == 1 .. NumCallers

NoCall == [op |-> "new", req |-> "-", res |-> "-"]

IdleCallers ==
  [c \in Callers |-> [pc |-> "idle", key |-> HmacKey, outcome |-> "-",
                      claim |-> "-", late |-> FALSE]]

\* every slot the owner of the pub struct can construct
AllSlots ==
  {AteccKeySlot(rc, st, cfg) :
     rc \in 0 .. MaxRefInit, st \in KeySlotStatus, cfg \in SlotConfig}

\* the slot of the unit tests: ref_count 1, Busy
TestSlots == {AteccKeySlot(1, "Busy", cfg) : cfg \in SlotConfig}

CompatSlots ==
  {AteccKeySlot(0, "Free", cfg) : cfg \in SlotConfig}
    \cup TestSlots
    \cup {AteccKeySlot(0, "Locked", cfg) : cfg \in SlotConfig}

InitWith(slots) ==
  /\ slot \in slots
  /\ created = slot
  /\ key_attr = HmacKey
  /\ last = NoCall
  /\ lock = 0
  /\ callers = IdleCallers

Init == InitWith(AllSlots)

(***************************************************************************)
(* Lifecycle specification: any sequence of calls on one slot.             *)
(***************************************************************************)
SetSlotStatus(status) ==
  LET r == set_slot_status(slot, status)
  IN  /\ slot' = r.slot
      /\ last' = [op |-> "set_slot_status", req |-> status, res |-> r.res]
      /\ UNCHANGED <<created, key_attr, lock, callers>>

ReferenceCheckAndSet ==
  LET r == reference_check_and_set(slot)
  IN  /\ slot' = r.slot
      /\ last' = [op |-> "reference_check_and_set", req |-> "-", res |-> r.res]
      /\ UNCHANGED <<created, key_attr, lock, callers>>

IsFree ==
  /\ last' = [op |-> "is_free", req |-> "-", res |-> BoolStr(is_free(slot))]
  /\ UNCHANGED <<slot, created, key_attr, lock, callers>>

KeyAttrVsConfig(keys) ==
  \E k \in keys :
    /\ key_attr' = k
    /\ last' = [op |-> "key_attr_vs_config", req |-> "-",
                res |-> key_attr_vs_config(slot, k)]
    /\ UNCHANGED <<slot, created, lock, callers>>

Next ==
  \/ \E status \in KeySlotStatus : SetSlotStatus(status)
  \/ ReferenceCheckAndSet
  \/ IsFree
  \/ KeyAttrVsConfig(ScenarioKeys)

Spec == Init /\ [][Next]_vars

(***************************************************************************)
(* Specifications of the pure predicates: the slot and the key attributes  *)
(* are drawn from bounded sets and the predicate is applied once.          *)
(***************************************************************************)
IsKeyTypeOk ==
  /\ last = NoCall
  /\ \E k \in TypeKeys :
       /\ key_attr' = k
       /\ last' = [op |-> "is_key_type_ok", req |-> "-",
                   res |-> BoolStr(is_key_type_ok(slot, k))]
  /\ UNCHANGED <<slot, created, lock, callers>>

SpecType == InitWith(TestSlots) /\ [][IsKeyTypeOk]_vars

IsUsageFlagsOk ==
  /\ last = NoCall
  /\ \E k \in UsageKeys :
       /\ key_attr' = k
       /\ last' = [op |-> "is_usage_flags_ok", req |-> "-",
                   res |-> BoolStr(is_usage_flags_ok(slot, k))]
  /\ UNCHANGED <<slot, created, lock, callers>>

SpecUsage == InitWith(TestSlots) /\ [][IsUsageFlagsOk]_vars

IsPermittedAlgorithmsOk ==
  /\ last = NoCall
  /\ \E k \in AlgKeys :
       /\ key_attr' = k
       /\ last' = [op |-> "is_permitted_algorithms_ok", req |-> "-",
                   res |-> BoolStr(is_permitted_algorithms_ok(slot, k))]
  /\ UNCHANGED <<slot, created, lock, callers>>

SpecAlg == InitWith(TestSlots) /\ [][IsPermittedAlgorithmsOk]_vars

\* one compatibility check of a newly constructed slot
CheckCompatibility(keys) == last = NoCall /\ KeyAttrVsConfig(keys)

SpecCompat == InitWith(CompatSlots) /\ [][CheckCompatibility(CompatKeys)]_vars

SpecHmac == InitWith(TestSlots) /\ [][CheckCompatibility(HmacKeys)]_vars

(***************************************************************************)
(* Allocator: every caller runs, under the exclusive lock of the slot      *)
(* table, free-check -> compatibility check -> claim -> status transition  *)
(* on the same slot.                                                       *)
(***************************************************************************)
InitAlloc ==
  /\ slot \in {DefaultSlot(cfg) : cfg \in SlotConfig}
  /\ created = slot
  /\ key_attr = HmacKey
  /\ last = NoCall
  /\ lock = 0
  /\ callers \in {[c \in Callers |-> [IdleCallers[c] EXCEPT !.key = ks[c]]] :
                    ks \in [Callers -> ScenarioKeys]}

\* the caller leaves the sequence with the given outcome and drops the lock
TurnedAway(c, outcome) == [callers[c] EXCEPT !.pc = "done", !.outcome = outcome]

Acquire(c) ==
  /\ lock = 0
  /\ callers[c].pc = "idle"
  /\ lock' = c
  /\ callers' = [callers EXCEPT ![c].pc = "free_check",
                   ![c].late = \E d \in Callers : callers[d].claim = Ok]
  /\ UNCHANGED <<slot, created, key_attr, last>>

FreeCheck(c) ==
  /\ lock = c
  /\ callers[c].pc = "free_check"
  /\ last' = [op |-> "is_free", req |-> "-", res |-> BoolStr(is_free(slot))]
  /\ IF is_free(slot)
     THEN callers' = [callers EXCEPT ![c].pc = "compat"] /\ lock' = lock
     ELSE callers' = [callers EXCEPT ![c] = TurnedAway(c, "NotFree")] /\ lock' = 0
  /\ UNCHANGED <<slot, created, key_attr>>

CompatCheck(c) ==
  LET res == key_attr_vs_config(slot, callers[c].key)
  IN  /\ lock = c
      /\ callers[c].pc = "compat"
      /\ key_attr' = callers[c].key
      /\ last' = [op |-> "key_attr_vs_config", req |-> "-", res |-> res]
      /\ IF res = Ok
         THEN callers' = [callers EXCEPT ![c].pc = "claim"] /\ lock' = lock
         ELSE callers' = [callers EXCEPT ![c] = TurnedAway(c, "NotSupported")]
                /\ lock' = 0
      /\ UNCHANGED <<slot, created>>

Claim(c) ==
  LET r == reference_check_and_set(slot)
  IN  /\ lock = c
      /\ callers[c].pc = "claim"
      /\ slot' = r.slot
      /\ last' = [op |-> "reference_check_and_set", req |-> "-", res |-> r.res]
      /\ IF r.res = Ok
         THEN callers' = [callers EXCEPT ![c].pc = "set_status", ![c].claim = Ok]
                /\ lock' = lock
         ELSE callers' = [callers EXCEPT
                            ![c] = [TurnedAway(c, "AlreadyClaimed") EXCEPT !.claim = Err]]
                /\ lock' = 0
      /\ UNCHANGED <<created, key_attr>>

Bind(c) ==
  LET r == set_slot_status(slot, "Busy")
  IN  /\ lock = c
      /\ callers[c].pc = "set_status"
      /\ slot' = r.slot
      /\ last' = [op |-> "set_slot_status", req |-> "Busy", res |-> r.res]
      /\ callers' = [callers EXCEPT
                       ![c] = TurnedAway(c, IF r.res = Ok THEN "Bound" ELSE "NotPermitted")]
      /\ lock' = 0
      /\ UNCHANGED <<created, key_attr>>

NextAlloc ==
  \E c \in Callers :
    \/ Acquire(c)
    \/ FreeCheck(c)
    \/ CompatCheck(c)
    \/ Claim(c)
    \/ Bind(c)

SpecAlloc == InitAlloc /\ [][NextAlloc]_vars

(***************************************************************************)
(* Properties.                                                             *)
(***************************************************************************)
\* C1: once the status is Locked it stays Locked, and every set_slot_status
\* call made on a Locked slot, whatever it requests, returns NotPermitted.
LockedIsTerminal ==
  [][slot.status = "Locked" =>
       /\ slot'.status = "Locked"
       /\ (last'.op = "set_slot_status" => last'.res = PsaErrorNotPermitted)]_vars

\* a Locked slot has refused a request to become Free
LockedRefusedFree ==
  /\ slot.status = "Locked"
  /\ last = [op |-> "set_slot_status", req |-> "Free", res |-> PsaErrorNotPermitted]

\* C2: on a Free or Busy slot set_slot_status(Free) and set_slot_status(Busy)
\* succeed and leave the requested status, set_slot_status(Locked) returns
\* NotPermitted and leaves the status alone; a slot created Free is never
\* Locked.
FreeBusyInterconvertible ==
  /\ [][(slot.status \in {"Free", "Busy"} /\ last'.op = "set_slot_status") =>
          IF last'.req \in {"Free", "Busy"}
          THEN last'.res = Ok /\ slot'.status = last'.req
          ELSE last'.res = PsaErrorNotPermitted /\ slot'.status = slot.status]_vars
  /\ [](created.status = "Free" => slot.status # "Locked")

\* a slot created Free, now Busy, has refused a request to become Locked
BusyRefusedLocked ==
  /\ created.status = "Free"
  /\ slot.status = "Busy"
  /\ last = [op |-> "set_slot_status", req |-> "Locked", res |-> PsaErrorNotPermitted]

\* C3: reference_check_and_set decides on ref_count alone: at 0 it returns Ok
\* and sets ref_count to 1, whatever the status; otherwise it returns Err and
\* changes nothing.  A count that is nonzero stays as it is, so every later
\* claim fails, and a count that starts at 0 never exceeds 1.
ClaimGuardOnCountOnly ==
  /\ [][last'.op = "reference_check_and_set" =>
          IF slot.ref_count = 0
          THEN last'.res = Ok /\ slot' = [slot EXCEPT !.ref_count = 1]
          ELSE last'.res = Err /\ slot' = slot]_vars
  /\ [][slot.ref_count # 0 => slot'.ref_count = slot.ref_count]_vars
  /\ [](created.ref_count = 0 => slot.ref_count <= 1)

\* a Locked slot created unclaimed was claimed, and a second claim failed
LockedClaimedOnce ==
  /\ slot.status = "Locked"
  /\ created.ref_count = 0
  /\ slot.ref_count = 1
  /\ last = [op |-> "reference_check_and_set", req |-> "-", res |-> Err]

\* C5: set_slot_status changes at most status, reference_check_and_set at
\* most ref_count, key_attr_vs_config and is_free nothing; the hardware
\* configuration is always the one the slot was created with.
FrameOfOperations ==
  /\ [][/\ last'.op = "set_slot_status" =>
             slot'.ref_count = slot.ref_count /\ slot'.config = slot.config
        /\ last'.op = "reference_check_and_set" =>
             slot'.status = slot.status /\ slot'.config = slot.config
        /\ last'.op \in {"key_attr_vs_config", "is_free"} => slot' = slot]_vars
  /\ [](slot.config = created.config)

\* status and ref_count both differ from their values at construction, and
\* a compatibility check has run since
ChangedThenChecked ==
  /\ slot.status # created.status
  /\ slot.ref_count # created.ref_count
  /\ last.op = "key_attr_vs_config"
  /\ slot.config = created.config

\* the callers whose claim returned Ok
Winners == {c \in Callers : callers[c].claim = Ok}

Orders == {o \in [1 .. 3 -> 1 .. 3] : \A i, j \in 1 .. 3 : o[i] = o[j] => i = j}

PredicateAt(i, self, attr) ==
  CASE i = 1 -> is_key_type_ok(self, attr)
    [] i = 2 -> is_usage_flags_ok(self, attr)
    [] i = 3 -> is_permitted_algorithms_ok(self, attr)

VerdictInOrder(o, self, attr) ==
  IF ~PredicateAt(o[1], self, attr) THEN PsaErrorNotSupported
  ELSE IF ~PredicateAt(o[2], self, attr) THEN PsaErrorNotSupported
  ELSE IF ~PredicateAt(o[3], self, attr) THEN PsaErrorNotSupported
  ELSE Ok

\* C6: key_attr_vs_config returns Ok exactly when the type, usage-flag and
\* permitted-algorithm predicates all hold and NotSupported otherwise; the
\* verdict is the one of every evaluation order of the three predicates and
\* is the same for every status and ref_count of the slot.
CompatIsConjunction ==
  last.op = "key_attr_vs_config" =>
    /\ last.res =
         IF /\ is_key_type_ok(slot, key_attr)
            /\ is_usage_flags_ok(slot, key_attr)
            /\ is_permitted_algorithms_ok(slot, key_attr)
         THEN Ok
         ELSE PsaErrorNotSupported
    /\ \A o \in Orders : VerdictInOrder(o, slot, key_attr) = last.res
    /\ \A st \in KeySlotStatus, rc \in 0 .. MaxRefInit :
         key_attr_vs_config(AteccKeySlot(rc, st, slot.config), key_attr) = last.res

\* a Locked slot was checked and only the algorithm predicate, the last one
\* the code evaluates, refused the key
RefusedByAlgorithmOnly ==
  /\ last.op = "key_attr_vs_config"
  /\ last.res = PsaErrorNotSupported
  /\ slot.status = "Locked"
  /\ is_key_type_ok(slot, key_attr)
  /\ is_usage_flags_ok(slot, key_attr)
  /\ ~is_permitted_algorithms_ok(slot, key_attr)

\* the table of type compatibility
TypeTable(cfg, attr) ==
  \/ attr.key_type.tag = "RawData" /\ cfg.key_type = "ShaOrText"
  \/ attr.key_type.tag = "Hmac" /\ ~cfg.no_mac
  \/ attr.key_type.tag = "Aes" /\ cfg.key_type = "Aes"
  \/ /\ attr.key_type.tag \in {"EccKeyPair", "EccPublicKey"}
     /\ attr.key_type.family = "SecpR1"
     /\ attr.bits = 256
     /\ cfg.key_type = "P256EccKey"

\* C7: is_key_type_ok accepts exactly the pairs of the type table: raw data
\* on ShaOrText, HMAC when no_mac is false, AES on Aes, secp-R1 EC key pairs
\* and public keys of 256 bits on P256EccKey; everything else is rejected.
TypeMatchesTable ==
  last.op = "is_key_type_ok" =>
    (last.res = "true") = TypeTable(slot.config, key_attr)

\* an HMAC key was accepted by a slot that is not an AES or text slot
HmacAcceptedOnEccSlot ==
  /\ last.op = "is_key_type_ok"
  /\ last.res = "true"
  /\ key_attr.key_type.tag = "Hmac"
  /\ slot.config.key_type = "P256EccKey"

\* the two conditions of usage-flag compatibility
UsageTable(cfg, attr) ==
  LET uf == attr.policy.usage_flags
  IN  /\ \/ ~(uf.export \/ uf.copy)
         \/ cfg.key_type # "P256EccKey"
         \/ cfg.pub_info /\ attr.key_type.tag \in {"EccPublicKey", "DhPublicKey"}
      /\ \/ ~(uf.sign_hash \/ uf.sign_message)
         \/ cfg.key_type = "P256EccKey" /\ cfg.ecc_key_attr.is_private

\* C8: is_usage_flags_ok accepts exactly when (1) no export and no copy, or
\* the slot is not P256EccKey, or pub_info is set and the key is an EC or DH
\* public key, and (2) no sign flag, or the slot is P256EccKey with
\* is_private; an Aes or ShaOrText slot rejects every key with a sign flag.
UsageMatchesTable ==
  last.op = "is_usage_flags_ok" =>
    /\ (last.res = "true") = UsageTable(slot.config, key_attr)
    /\ (/\ slot.config.key_type \in {"Aes", "ShaOrText"}
        /\ \/ key_attr.policy.usage_flags.sign_hash
           \/ key_attr.policy.usage_flags.sign_message)
         => last.res = "false"

\* an EC public key with export, copy and sign flags was accepted by a
\* private P256 slot with pub_info
PublicExportSignAccepted ==
  /\ last.op = "is_usage_flags_ok"
  /\ last.res = "true"
  /\ key_attr.key_type.tag = "EccPublicKey"
  /\ key_attr.policy.usage_flags.export
  /\ key_attr.policy.usage_flags.copy
  /\ key_attr.policy.usage_flags.sign_hash
  /\ key_attr.policy.usage_flags.sign_message
  /\ slot.config.key_type = "P256EccKey"

\* the table of permitted algorithms
AlgTable(cfg, a) ==
  \/ a.class = "Hash" /\ a.hash = "Sha256"
  \/ /\ a.class = "Mac" /\ a.alg = "Hmac" /\ a.hash = "Sha256"
     /\ ~cfg.no_mac /\ cfg.key_type # "P256EccKey" /\ ~cfg.ecc_key_attr.is_private
  \/ /\ a.class = "Mac" /\ a.alg \in {"CbcMac", "Cmac"}
     /\ ~cfg.no_mac /\ cfg.key_type = "Aes"
  \/ /\ a.class = "Cipher" /\ a.alg \in {"CbcPkcs7", "Ctr", "Cfb", "Ofb"}
     /\ cfg.key_type = "Aes"
  \/ a.class = "Aead" /\ a.alg \in {"Ccm", "Gcm"} /\ cfg.key_type = "Aes"
  \/ /\ a.class = "AsymmetricSignature" /\ a.alg = "Ecdsa" /\ a.hash = "Sha256"
     /\ cfg.is_secret /\ cfg.key_type = "P256EccKey" /\ cfg.ecc_key_attr.is_private
  \/ a.class = "KeyAgreement" /\ a.alg = "Ecdh" /\ cfg.key_type = "P256EccKey"

\* C9: is_permitted_algorithms_ok accepts exactly the rows of the algorithm
\* table; deterministic ECDSA, every asymmetric-encryption algorithm and
\* every algorithm not in the table are rejected for every configuration.
AlgMatchesTable ==
  last.op = "is_permitted_algorithms_ok" =>
    LET a == key_attr.policy.permitted_algorithms
    IN  /\ (last.res = "true") = AlgTable(slot.config, a)
        /\ (\/ a.class \in {"AsymmetricEncryption", "KeyDerivation", "None"}
            \/ a.alg \in {"DeterministicEcdsa", "EcdsaAny", "RsaPss", "Ffdh",
                          "Chacha20Poly1305", "Xts"})
             => last.res = "false"

\* truncated HMAC-SHA-256 was accepted by a text slot
TruncatedHmacAccepted ==
  /\ last.op = "is_permitted_algorithms_ok"
  /\ last.res = "true"
  /\ key_attr.policy.permitted_algorithms.class = "Mac"
  /\ key_attr.policy.permitted_algorithms.form = "Truncated"
  /\ key_attr.policy.permitted_algorithms.alg = "Hmac"
  /\ slot.config.key_type = "ShaOrText"

\* an HMAC key permitted HMAC-SHA-256 was checked against an AES slot that
\* allows MAC
Scenario3 ==
  /\ last.op = "key_attr_vs_config"
  /\ slot.config.key_type = "Aes"
  /\ ~slot.config.no_mac
  /\ key_attr.key_type.tag = "Hmac"
  /\ key_attr.policy.permitted_algorithms.class = "Mac"
  /\ key_attr.policy.permitted_algorithms.alg = "Hmac"
  /\ key_attr.policy.permitted_algorithms.hash = "Sha256"

\* C10 as stated: in scenario 3 the compatibility check succeeds for any
\* usage flags of the key.
Scenario3AnyFlags == Scenario3 => last.res = Ok

\* C10: in scenario 3 the compatibility check succeeds exactly when the slot's
\* ecc_key_attr.is_private is false and the key has neither sign_hash nor
\* sign_message, whatever the other usage flags are; otherwise it returns
\* NotSupported.
Scenario3WithoutSign ==
  Scenario3 =>
    last.res =
      IF /\ ~slot.config.ecc_key_attr.is_private
         /\ ~key_attr.policy.usage_flags.sign_hash
         /\ ~key_attr.policy.usage_flags.sign_message
      THEN Ok
      ELSE PsaErrorNotSupported

\* scenario 3 succeeded for a key with export, copy, derive and encrypt
Scenario3Accepted ==
  /\ Scenario3
  /\ last.res = Ok
  /\ key_attr.policy.usage_flags.export
  /\ key_attr.policy.usage_flags.copy
  /\ key_attr.policy.usage_flags.derive
  /\ key_attr.policy.usage_flags.encrypt

(***************************************************************************)
(* Lifecycle of a fresh slot: AteccKeySlot::default() for some hardware    *)
(* configuration, then any sequence of set_slot_status, claim-guard and    *)
(* free-check calls.                                                       *)
(***************************************************************************)
InitFresh == InitWith({DefaultSlot(cfg) : cfg \in SlotConfig})

NextFresh ==
  \/ \E status \in KeySlotStatus : SetSlotStatus(status)
  \/ ReferenceCheckAndSet
  \/ IsFree

SpecFresh == InitFresh /\ [][NextFresh]_vars

\* C11 as stated: in every state reachable from a fresh slot a Free slot is
\* unclaimed, status = Free implies ref_count = 0.
FreeIsUnclaimed == slot.status = "Free" => slot.ref_count = 0

\* C11: in every state reachable from a fresh slot the status is Free or Busy
\* and ref_count is 0 or 1; a claim made on a slot for which is_free is true
\* returns Ok exactly when ref_count is 0; releasing a Busy slot to Free
\* leaves ref_count as it is, so a claimed slot released to Free is Free with
\* ref_count 1 and refuses a further claim.
FreeSlotClaimRule ==
  /\ [](slot.status \in {"Free", "Busy"} /\ slot.ref_count \in {0, 1})
  /\ [][(last'.op = "reference_check_and_set" /\ is_free(slot)) =>
          (last'.res = Ok) = (slot.ref_count = 0)]_vars
  /\ [][(slot.status = "Busy" /\ last'.op = "set_slot_status" /\ last'.req = "Free") =>
          /\ last'.res = Ok
          /\ slot'.status = "Free"
          /\ slot'.ref_count = slot.ref_count]_vars

\* a claimed slot has just been released back to Free and still counts one
\* reference
ReleasedStillClaimed ==
  /\ created = DefaultSlot(slot.config)
  /\ slot.status = "Free"
  /\ slot.ref_count = 1
  /\ last = [op |-> "set_slot_status", req |-> "Free", res |-> Ok]

====
